---- MODULE Spec2Model ----
(***************************************************************************)
(* Model of ws_domain_export.py: query_domains (the batch request /        *)
(* response loop over one websocket connection), chunked, the reqID        *)
(* formatting, and main's hand-off of the results to append_csv.           *)
(***************************************************************************)
EXTENDS Integers, Sequences, FiniteSets, TLC

\* ------------------------------------------------------------- bounds
MaxLen == 2          \* longest input key list of a modelled run
MaxBatch == 2        \* largest --batch-size of a modelled run
MaxChunkLen == 4     \* longest list given to chunked alone
MaxChunkBatch == 3   \* largest size given to chunked alone
IdleTimeout == 2     \* --idle-timeout, in clock ticks

\* ------------------------------------------------------------- names
\* Lower-cased domains that main can pass to query_domains.
Keys == {"a.com", "b.com"}
\* Names a peer may put in a response: the keys and an upper-cased spelling.
Names == Keys \cup {"A.COM"}

\* ------------------------------------------------------------- JSON values
\* A decoded JSON value, tagged by its Python type.
JNull == [j |-> "null"]
JStr(s) == [j |-> "string", s |-> s]
JBool(b) == [j |-> "bool", b |-> b]
JArr(n) == [j |-> "array", n |-> n]
JObj(f) == [j |-> "object", f |-> f]

\* Python truthiness of a decoded value (`x or {}`, `if not name`).
Truthy(v) ==
    CASE v.j = "null" -> FALSE
      [] v.j = "string" -> v.s # ""
      [] v.j = "bool" -> v.b
      [] v.j = "array" -> v.n > 0
      [] v.j = "object" -> DOMAIN v.f # {}

\* dict.get(k): the value, or None for a missing key.
Get(o, k) == IF k \in DOMAIN o.f THEN o.f[k] ELSE JNull

\* Whether a value has a .get method (is a dict) / can be a dict key.
IsDict(v) == v.j = "object"
Hashable(v) == v.j \notin {"array", "object"}

\* ------------------------------------------------------------- frames
\* What ws.recv() can return: a text frame or a binary frame.
TextFrame(v) == [k |-> "json", v |-> v]
TextNotJson == [k |-> "text_not_json"]
BinaryNotUtf8 == [k |-> "binary_not_utf8"]

Envelope(t, d) == JObj([type |-> JStr(t), data |-> d])
Record(n, a) == JObj([name |-> JStr(n), available |-> JBool(a)])
Response(n, a) == TextFrame(Envelope("domainStatusResponse", Record(n, a)))

\* Every name is answered as available; one key is also answered as taken, so that
\* two responses for the same name can differ.
Responses == {Response(n, TRUE) : n \in Names} \cup {Response("a.com", FALSE)}
Undecodable == {TextNotJson, BinaryNotUtf8}
\* Frames that decode but are not well-formed responses.
OtherFrames ==
    { TextFrame(JArr(0)),
      TextFrame(JObj([data |-> Record("a.com", TRUE)])),
      TextFrame(Envelope("error", Record("a.com", TRUE))),
      TextFrame(JObj([type |-> JStr("domainStatusResponse")])),
      TextFrame(Envelope("domainStatusResponse", JStr("oops"))),
      TextFrame(Envelope("domainStatusResponse", JObj([available |-> JBool(TRUE)]))),
      TextFrame(Envelope("domainStatusResponse", JObj([name |-> JStr("")]))),
      TextFrame(Envelope("domainStatusResponse", JObj([name |-> JArr(1)]))) }
Frames == Responses \cup Undecodable \cup OtherFrames

\* json.loads(msg): the decoded value, or the exception it raises.
JsonLoads(msg) ==
    CASE msg.k = "json" -> [exc |-> "none", v |-> msg.v]
      [] msg.k = "text_not_json" -> [exc |-> "JSONDecodeError", v |-> JNull]
      [] msg.k = "binary_not_utf8" -> [exc |-> "UnicodeDecodeError", v |-> JNull]

\* ------------------------------------------------------------- pure helpers
Min(a, b) == IF a < b THEN a ELSE b
Range(s) == {s[i] : i \in 1..Len(s)}

\* Mutant of chunked: the slice stops one short (items[i : i + size - 1]).
RECURSIVE ChunksShort(_, _, _)
ChunksShort(items, size, i) ==
    IF i >= Len(items) THEN <<>>
    ELSE <<SubSeq(items, i + 1, Min(i + size - 1, Len(items)))>>
             \o ChunksShort(items, size, i + size)
chunkedShortSlice(items, size) == ChunksShort(items, size, 0)

RECURSIVE ChunksFrom(_, _, _)
ChunksFrom(items, size, i) ==
    IF i >= Len(items) THEN <<>>
    ELSE <<SubSeq(items, i + 1, Min(i + size, Len(items)))>>
             \o ChunksFrom(items, size, i + size)

\* list(chunked(items, size))
chunked(items, size) == ChunksFrom(items, size, 0)

RECURSIVE Digits(_)
Digits(n) == IF n < 10 THEN <<n>> ELSE Digits(n \div 10) \o <<n % 10>>

RECURSIVE ZeroPad(_, _)
ZeroPad(s, w) == IF Len(s) >= w THEN s ELSE ZeroPad(<<0>> \o s, w)

\* f"{req_counter:06d}"
FormatReqId(n) == ZeroPad(Digits(n), 6)

\* ------------------------------------------------------------- state
VARIABLES
    domains,        \* query_domains argument
    batch_size,     \* query_domains argument
    pc,             \* position of the run
    exc,            \* the exception that ended the run, or "none"
    batches,        \* list(chunked(domains, batch_size))
    bi,             \* index of the current batch in the for loop (0 before it)
    req_counter,
    pending,
    results,
    sent,           \* payloads handed to ws.send, in order
    waited,         \* ticks the current wait_for(ws.recv()) has been waiting
    base_results,   \* what main received from query_domains
    csv,            \* rows append_csv has written
    sinceStart,     \* history: ticks since the current request was sent (saturating)
    sinceMsg,       \* history: ticks since the last received frame or the send
    sinceDec,       \* history: ticks since the last decodable frame or the send (saturating)
    namedIn,        \* history: per group, the names recorded during its loop
    timedOut,       \* history: the groups whose loop ended by the idle timeout
    abandoned,      \* history: keys that were pending when an idle timeout fired
    conn,           \* the websocket connection: "none", "open", "closed" or "failed"
    domains_all,    \* main: the domains built for the base
    existing,       \* main: the domains known to be in the output file
    resume          \* history: existing as load_existing_domains returned it

vars == <<domains, batch_size, pc, exc, batches, bi, req_counter, pending, results,
          sent, waited, base_results, csv, sinceStart, sinceMsg, sinceDec,
          namedIn, timedOut, abandoned, conn, domains_all, existing, resume>>

runVars == <<batches, bi, req_counter, pending, results, sent>>
clockVars == <<waited, sinceStart, sinceMsg, sinceDec>>
histVars == <<namedIn, timedOut, abandoned>>
mainVars == <<base_results, csv, existing>>
argVars == <<domains, batch_size, domains_all, resume>>

Empty == [x \in {} |-> JNull]
Saturate(n) == Min(n, IdleTimeout + 1)

KeyLists(n) == UNION {[1..m -> Keys] : m \in 0..n}

\* Everything but the two arguments, as it is before query_domains starts.
InitRun ==
    /\ pc = "connect"
    /\ exc = "none"
    /\ batches = <<>>
    /\ bi = 0
    /\ req_counter = 0
    /\ pending = {}
    /\ results = Empty
    /\ sent = <<>>
    /\ waited = 0
    /\ base_results = Empty
    /\ csv = {}
    /\ sinceStart = 0
    /\ sinceMsg = 0
    /\ sinceDec = 0
    /\ namedIn = <<>>
    /\ timedOut = {}
    /\ abandoned = {}
    /\ conn = "none"

\* query_domains called on any key list, with nothing exported before.
Init ==
    /\ domains \in KeyLists(MaxLen)
    /\ batch_size \in 1..MaxBatch
    /\ domains_all = domains
    /\ existing = {}
    /\ resume = {}
    /\ InitRun

\* ------------------------------------------------------------- steps of the loop
\* Mutant of WhileTest: `while True:`, left only by the timeout.
WhileTrue(pend) == TRUE

\* Mutant of WhileTest: the loop body never runs, requests are sent back to back.
WhileNever(pend) == FALSE

\* `while pending:`
WhileTest(pend) == pend # {}

\* `for batch in batches`: the next batch, or the end of the loop.
ForNext(i, n) ==
    IF i < n THEN [pc |-> "send", bi |-> i + 1] ELSE [pc |-> "return", bi |-> i]

\* Mutant of OnTimeout: the timeout ends the run instead of the group.
OnTimeoutReturn(i, n) == [pc |-> "return", bi |-> i]

\* `except asyncio.TimeoutError: break` leaves the while loop for the for loop.
OnTimeout(i, n) == ForNext(i, n)

\* Mutant of NextCounter: the increment is forgotten.
NextCounterSame(c) == c

\* `req_counter += 1`
NextCounter(c) == c + 1

\* Mutant of PendingOf: the first key of the batch is left out.
PendingOfTail(batch) == Range(Tail(batch))

\* `pending = set(batch)`
PendingOf(batch) == Range(batch)

\* Mutant of Store: results.setdefault(name, resp), the first record is kept.
StoreIfAbsent(res, name, resp) ==
    [x \in DOMAIN res \cup {name} |-> IF x \in DOMAIN res THEN res[x] ELSE resp]

\* `results[name] = resp`
Store(res, name, resp) ==
    [x \in DOMAIN res \cup {name} |-> IF x = name THEN resp ELSE res[x]]

\* str.lower() on the names of the model.
Lower(n) == IF n = "A.COM" THEN "a.com" ELSE n

\* Mutant of Discard: the key is matched without regard to case.
DiscardLower(pend, name) == pend \ {Lower(name)}

\* `pending.discard(name)`
Discard(pend, name) == pend \ {name}

\* Mutant of WaitedAfter: one deadline for the whole group, never restarted.
WaitedKept(o, w) == w

\* Mutant of WaitedAfter: a frame that does not decode leaves the deadline alone.
WaitedKeptOnDecodeError(o, w) == IF o = "JSONDecodeError" THEN w ELSE 0

\* Every iteration makes a new wait_for(ws.recv(), timeout=idle_timeout): whatever
\* the outcome o of the previous frame, the wait starts again from zero.
WaitedAfter(o, w) == 0

Skip(pend, res) ==
    [exc |-> "none", pending |-> pend, results |-> res, stored |-> FALSE, name |-> ""]
Raise(e, pend, res) ==
    [exc |-> e, pending |-> pend, results |-> res, stored |-> FALSE, name |-> ""]

\* The body of the while loop after a frame was received (json.loads to discard).
Handle(msg, pend, res) ==
    LET d == JsonLoads(msg) IN
    IF d.exc = "JSONDecodeError" THEN Skip(pend, res)
    ELSE IF d.exc # "none" THEN Raise(d.exc, pend, res)
    ELSE LET data == d.v IN
    IF ~IsDict(data) THEN Raise("AttributeError", pend, res)
    ELSE IF Get(data, "type") # JStr("domainStatusResponse") THEN Skip(pend, res)
    ELSE LET got == Get(data, "data")
             resp == IF Truthy(got) THEN got ELSE JObj(Empty) IN
    IF ~IsDict(resp) THEN Raise("AttributeError", pend, res)
    ELSE LET name == Get(resp, "name") IN
    IF ~Truthy(name) THEN Skip(pend, res)
    ELSE IF ~Hashable(name) THEN Raise("TypeError", pend, res)
    ELSE [exc |-> "none", pending |-> Discard(pend, name.s),
          results |-> Store(res, name.s, resp), stored |-> TRUE, name |-> name.s]

\* What the frame's handling was, as far as the loop is concerned.
Outcome(msg) == JsonLoads(msg).exc

\* `writer.writerow([domain, resp.get("available"), ...])` for every key.
Rows(res) == {[domain |-> d, available |-> Get(res[d], "available")] : d \in DOMAIN res}

\* ------------------------------------------------------------- actions
\* An exception leaves the receive loop: no wait_for is waiting any more.
StopClocks == waited' = 0 /\ sinceStart' = 0 /\ sinceMsg' = 0 /\ sinceDec' = 0

\* websockets.connect succeeds; req_counter = 1; batches = list(chunked(...)).
Connect ==
    /\ pc = "connect"
    /\ req_counter' = 1
    /\ batches' = chunked(domains, batch_size)
    /\ LET nx == ForNext(0, Len(batches')) IN pc' = nx.pc /\ bi' = nx.bi
    /\ namedIn' = [g \in 1..Len(batches') |-> {}]
    /\ conn' = "open"
    /\ UNCHANGED <<argVars, exc, pending, results, sent, clockVars, mainVars,
                   timedOut, abandoned>>

\* websockets.connect raises (handshake failure, open timeout).
ConnectFail ==
    /\ pc = "connect"
    /\ pc' = "raised"
    /\ exc' = "ConnectionError"
    /\ conn' = "failed"
    /\ UNCHANGED <<argVars, runVars, clockVars, mainVars, histVars>>

\* Lines 113-121 and the first test of `while pending`.
Send ==
    /\ pc = "send"
    /\ LET batch == batches[bi]
           req_id == FormatReqId(req_counter) IN
        /\ req_counter' = NextCounter(req_counter)
        /\ pending' = PendingOf(batch)
        /\ sent' = Append(sent, [type |-> "domainStatus", reqID |-> req_id,
                                 domains |-> batch])
    /\ IF WhileTest(pending')
       THEN pc' = "recv" /\ bi' = bi
       ELSE LET nx == ForNext(bi, Len(batches)) IN pc' = nx.pc /\ bi' = nx.bi
    /\ waited' = 0
    /\ sinceStart' = 0 /\ sinceMsg' = 0 /\ sinceDec' = 0
    /\ UNCHANGED <<argVars, exc, batches, results, mainVars, histVars, conn>>

\* ws.send raises: the connection was lost.
SendFail ==
    /\ pc = "send"
    /\ req_counter' = NextCounter(req_counter)
    /\ pending' = PendingOf(batches[bi])
    /\ pc' = "raised"
    /\ exc' = "ConnectionClosed"
    /\ conn' = "closed"
    /\ UNCHANGED <<argVars, batches, bi, results, sent, clockVars, mainVars, histVars>>

\* Time passes while wait_for(ws.recv()) is waiting.
Tick ==
    /\ pc = "recv"
    /\ waited < IdleTimeout
    /\ waited' = waited + 1
    /\ sinceStart' = Saturate(sinceStart + 1)
    /\ sinceMsg' = Saturate(sinceMsg + 1)
    /\ sinceDec' = Saturate(sinceDec + 1)
    /\ UNCHANGED <<argVars, pc, exc, runVars, mainVars, histVars, conn>>

\* wait_for raises asyncio.TimeoutError: break.
Timeout ==
    /\ pc = "recv"
    /\ waited >= IdleTimeout
    /\ LET nx == OnTimeout(bi, Len(batches)) IN pc' = nx.pc /\ bi' = nx.bi
    /\ abandoned' = abandoned \cup pending
    /\ timedOut' = timedOut \cup {bi}
    /\ UNCHANGED <<argVars, exc, batches, req_counter, pending, results, sent,
                   clockVars, mainVars, namedIn, conn>>

\* ws.recv() returns the frame msg before the timeout; the rest of the loop body
\* runs, and then the test of `while pending`.
Recv(msg) ==
    /\ pc = "recv"
    /\ waited < IdleTimeout
    /\ LET h == Handle(msg, pending, results) IN
        IF h.exc # "none"
        THEN /\ pc' = "raised"
             /\ exc' = h.exc
             /\ StopClocks
             /\ conn' = "closed"
             /\ UNCHANGED <<runVars, namedIn>>
        ELSE /\ pending' = h.pending
             /\ results' = h.results
             /\ exc' = exc
             /\ IF WhileTest(pending')
                THEN pc' = "recv" /\ bi' = bi
                ELSE LET nx == ForNext(bi, Len(batches)) IN pc' = nx.pc /\ bi' = nx.bi
             /\ waited' = WaitedAfter(Outcome(msg), waited)
             /\ namedIn' = IF h.stored
                           THEN [namedIn EXCEPT ![bi] = @ \cup {h.name}]
                           ELSE namedIn
             /\ sinceMsg' = 0
             /\ sinceDec' = IF Outcome(msg) = "none" THEN 0 ELSE sinceDec
             /\ UNCHANGED <<batches, req_counter, sent, sinceStart, conn>>
    /\ UNCHANGED <<argVars, mainVars, timedOut, abandoned>>

Receive == \E msg \in Frames : Recv(msg)

\* ws.recv() raises: the connection was lost.
RecvFail ==
    /\ pc = "recv"
    /\ pc' = "raised"
    /\ exc' = "ConnectionClosed"
    /\ StopClocks
    /\ conn' = "closed"
    /\ UNCHANGED <<argVars, runVars, mainVars, histVars>>

\* A user interrupt while query_domains runs: asyncio.run cancels the task, the
\* CancelledError leaves `async with` (which closes the connection) and
\* asyncio.run raises KeyboardInterrupt in main, which does not catch it.  The
\* task is cancelled at an await: the connect, the ws.send (lines 113-115 have
\* run by then) or the ws.recv.
Cancel ==
    /\ pc \in {"connect", "send", "recv"}
    /\ pc' = "raised"
    /\ exc' = "KeyboardInterrupt"
    /\ StopClocks
    /\ conn' = IF conn = "open" THEN "closed" ELSE conn
    /\ IF pc = "send"
       THEN /\ req_counter' = NextCounter(req_counter)
            /\ pending' = PendingOf(batches[bi])
       ELSE UNCHANGED <<req_counter, pending>>
    /\ UNCHANGED <<argVars, batches, bi, results, sent, mainVars, histVars>>

\* The connection is closed and `return results` hands the store to main.
Return ==
    /\ pc = "return"
    /\ base_results' = results
    /\ pc' = "append_csv"
    /\ conn' = "closed"
    /\ UNCHANGED <<argVars, exc, runVars, clockVars, csv, existing, histVars>>

\* main: append_csv(base_results, args.out); existing.update(base_results.keys())
AppendCsv ==
    /\ pc = "append_csv"
    /\ csv' = csv \cup Rows(base_results)
    /\ existing' = existing \cup DOMAIN base_results
    /\ pc' = "done"
    /\ UNCHANGED <<argVars, exc, runVars, clockVars, base_results, histVars, conn>>

Next ==
    \/ Connect
    \/ ConnectFail
    \/ Send
    \/ SendFail
    \/ Tick
    \/ Timeout
    \/ Receive
    \/ RecvFail
    \/ Cancel
    \/ Return
    \/ AppendCsv

Spec == Init /\ [][Next]_vars

\* chunked alone, on longer lists: the run stops once the batches are made.
InitChunked ==
    /\ domains \in KeyLists(MaxChunkLen)
    /\ batch_size \in 1..MaxChunkBatch
    /\ domains_all = domains
    /\ existing = {}
    /\ resume = {}
    /\ InitRun

NextChunked ==
    \/ Connect
    \/ ConnectFail

SpecChunked == InitChunked /\ [][NextChunked]_vars

\* ------------------------------------------------------------- main, one base
\* Mutant of Filter: nothing is filtered out.
FilterNone(all, ex) == all

\* `[d for d in domains_all if d not in existing]`
Filter(all, ex) == SelectSeq(all, LAMBDA d : d \notin ex)

\* `if existing.issuperset(domains_all): ... continue`
MainSkip ==
    /\ pc = "main"
    /\ Range(domains_all) \subseteq existing
    /\ pc' = "done"
    /\ UNCHANGED <<argVars, exc, runVars, clockVars, mainVars, histVars, conn>>

\* `domains = [...]; asyncio.run(query_domains(domains, ...))`
MainQuery ==
    /\ pc = "main"
    /\ ~(Range(domains_all) \subseteq existing)
    /\ domains' = Filter(domains_all, existing)
    /\ pc' = "connect"
    /\ UNCHANGED <<batch_size, domains_all, resume, exc, runVars, clockVars,
                   mainVars, histVars, conn>>

\* One iteration of main's loop over the bases: build_domains gives at least one
\* domain per base, and the output file may already hold any of the keys.
InitResume ==
    /\ domains = <<>>
    /\ batch_size \in 1..MaxBatch
    /\ domains_all \in KeyLists(MaxLen) \ {<<>>}
    /\ existing \in SUBSET Keys
    /\ resume = existing
    /\ pc = "main"
    /\ exc = "none"
    /\ batches = <<>>
    /\ bi = 0
    /\ req_counter = 0
    /\ pending = {}
    /\ results = Empty
    /\ sent = <<>>
    /\ base_results = Empty
    /\ csv = {}
    /\ waited = 0 /\ sinceStart = 0 /\ sinceMsg = 0 /\ sinceDec = 0
    /\ namedIn = <<>> /\ timedOut = {} /\ abandoned = {}
    /\ conn = "none"

NextResume ==
    \/ MainSkip
    \/ MainQuery
    \/ Next

SpecResume == InitResume /\ [][NextResume]_vars

TypeOK ==
    /\ pc \in {"main", "connect", "send", "recv", "return", "append_csv", "done", "raised"}
    /\ pending \subseteq Keys
    /\ DOMAIN results \subseteq Names
    /\ waited \in 0..IdleTimeout

\* ------------------------------------------------------------- an open connection
\* The run while the connection stays open and nobody interrupts: the event loop
\* runs every step that is ready, time passes, and the timeout fires when due.
NextOpen ==
    \/ Connect
    \/ Send
    \/ Tick
    \/ Timeout
    \/ Receive
    \/ Return
    \/ AppendCsv

SpecOpen ==
    /\ Init
    /\ [][NextOpen]_vars
    /\ WF_vars(Connect)
    /\ WF_vars(Send)
    /\ WF_vars(Tick)
    /\ WF_vars(Timeout)
    /\ WF_vars(Return)
    /\ WF_vars(AppendCsv)

\* ------------------------------------------------------------- claims
Connected == req_counter > 0
Returned == pc \in {"append_csv", "done"}
NoDup(s) == \A i, j \in 1..Len(s) : s[i] = s[j] => i = j
KeysOf(g) == Range(batches[g])
\* Groups abandoned by the idle timeout with no response recorded in their loop.
Silent == {g \in timedOut : namedIn[g] = {}}
\* The name and the data of a well-formed response frame.
NameOf(msg) == msg.v.f.data.f.name.s
DataOf(msg) == msg.v.f.data

\* C1: a receive is only ever issued with a non-empty pending-set, and the step
\* that empties the pending-set goes straight to the send of the next group's
\* request, or to the return when the group was the last one.
C1_NoWaitWhenAnswered ==
    /\ [](pc = "recv" => pending # {})
    /\ [][(pc = "recv" /\ pending' = {}) =>
            \/ pc' = "send" /\ bi < Len(batches) /\ bi' = bi + 1
            \/ pc' = "return" /\ bi = Len(batches)]_vars

\* The first of two groups was fully answered before any tick passed, and the
\* second request is the next step.
C1_Witness ==
    /\ pc = "send" /\ bi = 2
    /\ sinceStart = 0
    /\ timedOut = {}
    /\ KeysOf(1) \subseteq DOMAIN results

\* C2 as stated, for a duplicate-free input: after a group got no response before
\* its idle timeout, every group's request is sent and none of its keys is in the
\* returned ResultStore.
C2_Original ==
    (Returned /\ NoDup(domains)) =>
        /\ Len(sent) = Len(batches)
        /\ \A g \in Silent : KeysOf(g) \cap DOMAIN base_results = {}

\* C2 amended: after a group got no response before its idle timeout, every
\* group's request is sent, and a key of that group is in the returned ResultStore
\* only when a response naming it was recorded during another group's loop.
C2_Amended ==
    Returned =>
        /\ Len(sent) = Len(batches)
        /\ \A g \in Silent : \A k \in KeysOf(g) :
              k \in DOMAIN base_results =>
                  \E g2 \in DOMAIN namedIn : g2 # g /\ k \in namedIn[g2]

\* The first group timed out unanswered, the second request was sent, and a late
\* response put a key of the first group in the returned store.
C2_Witness ==
    /\ pc = "done"
    /\ NoDup(domains)
    /\ Len(sent) = 2
    /\ 1 \in Silent
    /\ KeysOf(1) \cap DOMAIN base_results # {}

\* C3 as stated: a frame that cannot be decoded changes neither the pending-set nor
\* the ResultStore, raises nothing, and the loop goes on to the next receive.
C3_Claim ==
    [][\A msg \in Undecodable :
          Recv(msg) =>
              /\ pending' = pending
              /\ results' = results
              /\ exc' = "none"
              /\ pc' = "recv"]_vars

\* C4 as stated: a well-formed response whose name is not pending changes neither
\* the pending-set nor the ResultStore, and raises nothing.
C4_Original ==
    [][\A msg \in Responses :
          (Recv(msg) /\ NameOf(msg) \notin pending) =>
              /\ pending' = pending
              /\ results' = results
              /\ exc' = "none"]_vars

\* C4 amended: a well-formed response whose name is not pending raises nothing and
\* leaves the pending-set unchanged, but its data is recorded in the ResultStore
\* under its name, replacing any earlier record; the other records are unchanged.
C4_Amended ==
    [][\A msg \in Responses :
          (Recv(msg) /\ NameOf(msg) \notin pending) =>
              /\ pending' = pending
              /\ exc' = "none"
              /\ pc' = "recv"
              /\ DOMAIN results' = DOMAIN results \cup {NameOf(msg)}
              /\ results'[NameOf(msg)] = DataOf(msg)
              /\ \A x \in DOMAIN results \ {NameOf(msg)} : results'[x] = results[x]]_vars

\* A name that was never requested is in the store and the loop is still receiving.
C4_Witness ==
    /\ pc = "recv"
    /\ \E n \in DOMAIN results : n \notin Range(domains)

\* The pending-sets of all groups: the current one, the groups not yet sent, and
\* what was left of the groups the idle timeout abandoned.
AllPending ==
    pending \cup abandoned
      \cup UNION {KeysOf(g) : g \in (IF pc = "send" THEN bi ELSE bi + 1)..Len(batches)}

\* C5 as stated: for a duplicate-free input the pending-sets and the ResultStore's
\* keys partition the input key set at every point of the run.
C5_Original ==
    (Connected /\ NoDup(domains)) =>
        /\ AllPending \cup DOMAIN results = Range(domains)
        /\ AllPending \cap DOMAIN results = {}

\* C5 amended: for a duplicate-free input every input key is at every point of the
\* run in a pending-set (counting what a timed-out group left) or a key of the
\* ResultStore; the store may hold other names, and a key may be in both.
C5_Amended ==
    (Connected /\ NoDup(domains)) =>
        Range(domains) \subseteq AllPending \cup DOMAIN results

\* A key abandoned by the first group was recorded later, and so was a name that
\* is not an input key.
C5_Witness ==
    /\ Connected /\ NoDup(domains)
    /\ abandoned \cap DOMAIN results # {}
    /\ ~(DOMAIN results \subseteq Range(domains))

Ceil(n, b) == (n + b - 1) \div b
RECURSIVE Concat(_)
Concat(ss) == IF ss = <<>> THEN <<>> ELSE Head(ss) \o Concat(Tail(ss))

\* C6: chunked yields ceil(n/b) groups, each non-empty and of at most b keys, whose
\* concatenation is the input; for a duplicate-free input the groups are pairwise
\* disjoint and their union is the input set.
C6_Chunked ==
    Connected =>
        /\ Len(batches) = Ceil(Len(domains), batch_size)
        /\ \A g \in 1..Len(batches) :
              Len(batches[g]) >= 1 /\ Len(batches[g]) <= batch_size
        /\ Concat(batches) = domains
        /\ NoDup(domains) =>
              /\ \A g, h \in 1..Len(batches) : g # h => KeysOf(g) \cap KeysOf(h) = {}
              /\ UNION {KeysOf(g) : g \in 1..Len(batches)} = Range(domains)

\* Three keys in groups of two: the last group is shorter than the batch size.
C6_Witness ==
    /\ Connected
    /\ Len(domains) = 3 /\ batch_size = 2
    /\ Len(batches) = 2 /\ Len(batches[2]) = 1

\* k as exactly six decimal digits.
SixDigits(k) ==
    << (k \div 100000) % 10, (k \div 10000) % 10, (k \div 1000) % 10,
       (k \div 100) % 10, (k \div 10) % 10, k % 10 >>

\* C7: the k-th request sent carries k as a 6-digit zero-padded reqID, so the ids
\* start at 000001, increase by one and are never reused.
C7_ReqIds ==
    /\ \A k \in 1..Len(sent) : sent[k].reqID = SixDigits(k)
    /\ \A i, k \in 1..Len(sent) : i # k => sent[i].reqID # sent[k].reqID

\* Two requests were sent, the second after the first group timed out.
C7_Witness ==
    /\ Len(sent) = 2
    /\ 1 \in timedOut
    /\ sent[1].reqID = <<0, 0, 0, 0, 0, 1>>

\* C8: while a receive is waiting, the time it has waited is the time since the
\* last received frame (or since the send when there was none): the idle timeout
\* fires only after a whole idle-timeout with no frame at all.
C8_DeadlineFromLastMessage ==
    pc = "recv" => waited = sinceMsg

\* A group is about to time out later than one idle-timeout after its request was
\* sent, a whole idle-timeout after a frame that decoded and was ignored.
C8_Witness ==
    /\ pc = "recv"
    /\ waited = IdleTimeout
    /\ sinceDec = IdleTimeout
    /\ sinceStart > IdleTimeout
    /\ results = Empty

\* C9 as stated: the deadline is measured from the last frame that decoded, so
\* frames that do not decode leave the time of the timeout unchanged.
C9_Original ==
    pc = "recv" => waited = sinceDec

\* C9 amended: a text frame that is not JSON is skipped and the next receive waits
\* a whole idle-timeout again, exactly as after any other frame.
C9_Amended ==
    [][(Recv(TextNotJson) /\ pc' = "recv") =>
            /\ waited' = 0
            /\ pending' = pending
            /\ results' = results]_vars

\* A group is about to time out more than one idle-timeout after the last frame
\* that decoded: frames that did not decode kept it open.
C9_Witness ==
    /\ pc = "recv"
    /\ waited = IdleTimeout
    /\ sinceDec > IdleTimeout

\* C10 as stated: when the run is ended by an exception, every record stored
\* before it is returned to main or written by append_csv.
C10_Claim ==
    (pc = "raised" /\ exc = "ConnectionClosed") =>
        \A k \in DOMAIN results :
            \/ k \in DOMAIN base_results /\ base_results[k] = results[k]
            \/ \E row \in csv : row.domain = k

\* C11 as stated: a user interrupt closes the connection and hands the records
\* stored so far to the caller: each is returned to main or written by append_csv.
C11_Claim ==
    (pc = "raised" /\ exc = "KeyboardInterrupt") =>
        /\ conn # "open"
        /\ \A k \in DOMAIN results :
              \/ k \in DOMAIN base_results /\ base_results[k] = results[k]
              \/ \E row \in csv : row.domain = k

\* The keys of the k-th contiguous group of the input, computed from the input.
GroupOfInput(k) ==
    SubSeq(domains, (k - 1) * batch_size + 1, Min(k * batch_size, Len(domains)))

\* C12: one request per group, in group order and carrying that group's keys; the
\* only group with an open receive loop is the one whose request was sent last,
\* and every group before it has ended, by the idle timeout or fully answered.
C12_OneGroupAtATime ==
    Connected =>
        /\ Len(sent) \in {bi - 1, bi}
        /\ pc = "recv" => Len(sent) = bi
        /\ \A k \in 1..Len(sent) : sent[k].domains = GroupOfInput(k)
        /\ \A g \in 1..(Len(sent) - 1) :
              g \in timedOut \/ KeysOf(g) \subseteq DOMAIN results

\* The second group's loop is open after the first group's loop has ended.
C12_Witness ==
    /\ pc = "recv"
    /\ bi = 2
    /\ Len(sent) = 2
    /\ pending # {}

\* Frames that decode as JSON and are no response or carry no name: a JSON array,
\* an object without type, another type, no data, data that is a string, data
\* without a name, an empty name.
NamelessFrames ==
    { TextFrame(JArr(0)),
      TextFrame(JObj([data |-> Record("a.com", TRUE)])),
      TextFrame(Envelope("error", Record("a.com", TRUE))),
      TextFrame(JObj([type |-> JStr("domainStatusResponse")])),
      TextFrame(Envelope("domainStatusResponse", JStr("oops"))),
      TextFrame(Envelope("domainStatusResponse", JObj([available |-> JBool(TRUE)]))),
      TextFrame(Envelope("domainStatusResponse", JObj([name |-> JStr("")]))) }

\* C13 as stated: a frame that decodes, whatever its JSON shape, and is not a
\* domainStatusResponse or carries no name, is skipped: nothing is raised and the
\* pending-set and the ResultStore are unchanged.
C13_Claim ==
    [][\A msg \in NamelessFrames :
          Recv(msg) =>
              /\ exc' = "none"
              /\ pc' = "recv"
              /\ pending' = pending
              /\ results' = results]_vars

\* C14 as stated: every key of the ResultStore is lower-cased, and a response
\* whose name has upper-case letters removes the lower-cased key from the
\* pending-set.
C14_Claim ==
    /\ [](\A k \in DOMAIN results : k = Lower(k))
    /\ [][\A msg \in Responses :
            Recv(msg) => Lower(NameOf(msg)) \notin pending']_vars

\* C15: the ResultStore maps each name to one record, the data of the last
\* well-formed response received for that name, and that is what is returned.
C15_LastWriteWins ==
    /\ [][\A msg \in Responses :
            Recv(msg) => (exc' = "none" /\ results'[NameOf(msg)] = DataOf(msg))]_vars
    /\ [][\A k \in DOMAIN results :
            (\A msg \in Responses : NameOf(msg) = k => ~Recv(msg)) =>
                (k \in DOMAIN results' /\ results'[k] = results[k])]_vars
    /\ [](Returned => base_results = results)

\* a.com was answered in the loops of both groups; the returned record is the
\* second answer.
C15_Witness ==
    /\ Returned
    /\ Len(batches) = 2
    /\ "a.com" \in namedIn[1] \cap namedIn[2]
    /\ namedIn[1] = {"a.com"}
    /\ namedIn[2] = {"a.com", "b.com"}
    /\ base_results["a.com"] = Record("a.com", FALSE)

\* C16: when the resume-set holds every domain built for the base, no connection
\* is opened, no request is sent and no row is appended; and no request ever
\* carries a key of the resume-set.
C16_ResumeIdempotent ==
    /\ Range(domains_all) \subseteq resume =>
          /\ pc \in {"main", "done"}
          /\ conn = "none"
          /\ sent = <<>>
          /\ csv = {}
          /\ existing = resume
    /\ \A k \in 1..Len(sent) : Range(sent[k].domains) \cap resume = {}

\* A base whose domains are all in the resume-set was skipped.
C16_Witness ==
    /\ pc = "done"
    /\ Range(domains_all) \subseteq resume
    /\ conn = "none"

\* C17 as stated: with the connection open and finitely many frames received,
\* every group's request is sent and query_domains returns.
C17_Claim ==
    <>[][~Receive]_vars => <>(Returned /\ Len(sent) = Len(batches))

\* What holds instead: with the connection open and finitely many frames
\* received, the run ends, by its return or by an exception a frame raised.
C17_EndsOrRaises ==
    <>[][~Receive]_vars => <>(pc \in {"done", "raised"})

\* C18: the pending-set of an open loop is a subset of the group's keys and never
\* grows; a key leaves it only in a step that receives a well-formed response
\* named exactly that key, after which the name is a key of the ResultStore; the
\* store never loses a key, so every key removed is a key of the returned store.
C18_PendingShrinks ==
    /\ [](pc = "recv" => pending \subseteq KeysOf(bi))
    /\ [][pc = "recv" =>
            /\ pending' \subseteq pending
            /\ \A k \in pending \ pending' :
                  /\ k \in DOMAIN results'
                  /\ \E msg \in Responses : NameOf(msg) = k /\ Recv(msg)
            /\ DOMAIN results \subseteq DOMAIN results']_vars
    /\ [](Returned =>
            /\ DOMAIN base_results = DOMAIN results
            /\ \A g \in 1..Len(batches) :
                  KeysOf(g) \ abandoned \subseteq DOMAIN base_results)

\* One of the two keys of the group has left the pending-set and is in the store.
C18_Witness ==
    /\ pc = "recv"
    /\ pending # {}
    /\ KeysOf(bi) \ pending # {}
    /\ KeysOf(bi) \ pending \subseteq DOMAIN results

====
